---- MODULE Spec2Model ----
(***************************************************************************)
(* Model of the hiring-pipeline backend (src/server.js): an Express app    *)
(* whose async route handlers read and write three Mongoose collections    *)
(* (Job, Candidate, Evaluation) and upload files to a Google Drive folder. *)
(*                                                                         *)
(* Node runs each handler on one thread and switches handlers only at an   *)
(* await, so one action of the model is one external operation (a Drive    *)
(* files.create, a Mongoose save or find) together with the synchronous    *)
(* code of the handler that runs when that operation settles.              *)
(***************************************************************************)
EXTENDS Integers, Sequences, FiniteSets, TLC

\* Number of requests the service receives in one behaviour.
MaxReq == 2
\* Largest number of attachment files in one POST /api/jobs.
MaxFiles == 2
\* Number of half days the clock runs for.
MaxTick == 2

Req == 1..MaxReq

(***************************************************************************)
(* JavaScript values found in req.body: undefined, a string, a number (in  *)
(* a JSON body) or an array of strings.  The shapes share one record type. *)
(***************************************************************************)
Undef == [t |-> "undefined", s |-> "", a |-> <<>>]
Str(x) == [t |-> "string", s |-> x, a |-> <<>>]
Num(n) == [t |-> "number", s |-> ToString(n), a |-> <<>>]
Arr(l) == [t |-> "array", s |-> "", a |-> l]

\* Array.isArray(v)
IsArray(v) == v.t = "array"

\* !v : undefined, the empty string and 0 are falsy, every array is truthy
Falsy(v) ==
    \/ v.t = "undefined"
    \/ (v.t = "string" /\ v.s = "")
    \/ (v.t = "number" /\ v.s = "0")

\* `name = dflt` in a destructuring pattern: the default replaces undefined only
Default(v, dflt) == IF v.t = "undefined" THEN dflt ELSE v

VARIABLES
    jobs,           \* the Job collection, in insertion order; _id is the position
    candidates,     \* the Candidate collection
    evaluations,    \* the Evaluation collection
    drive,          \* the files of the Drive folder
    sheets,         \* the rows of Sheet1, Sheet2 and Sheet3 of the spreadsheet
    req,            \* the requests: input, handler position, locals, response
    now             \* the clock: half days since 2026-11-01T00:00:00Z

vars == <<jobs, candidates, evaluations, drive, sheets, req, now>>
stores == <<jobs, candidates, evaluations>>
google == <<drive, sheets>>

(***************************************************************************)
(* Request inputs.                                                         *)
(***************************************************************************)
JobIds == {"J1", "J2"}
CandidateIds == {"C1", "C2"}

\* Every shape a multipart list field can arrive in: omitted, sent once, sent
\* several times (multer then delivers an array).
FieldVals == {Undef, Str("x"), Str("x,y"), Arr(<<>>), Arr(<<"x">>), Arr(<<"x", "y">>)}

\* The attachments of a request: the first n of these original names, in order
FileNames == <<"a.pdf", "b.png", "c.txt", "d.doc">>
Attachments == {SubSeq(FileNames, 1, n) : n \in 0..MaxFiles}

\* The stores' native identifiers (_id), in the order they are given out, and
\* the 24-hex-digit text of one, as it appears in a URL
NativeIds == 1..(MaxReq + 1)
ObjectIdText(n) == "0x" \o ToString(n)

EmptyBody ==
    [jobId |-> Undef, candidateId |-> Undef, jobClassification |-> Undef,
     positionTitle |-> Undef, certifications |-> Undef, tools |-> Undef,
     skills |-> Undef, evaluationResults |-> Undef, ScoresFactor |-> Undef,
     firstName |-> Undef, lastName |-> Undef, datePosted |-> Undef]

\* A link is the webViewLink of a Drive file; null is the empty tuple.
NullLink == <<>>

\* res before anything is sent, and the fields a JSON response can carry
NoRes ==
    [msg |-> "", success |-> "absent", jobId |-> Undef, attachmentLinks |-> <<>>,
     resumeLink |-> NullLink, data |-> <<>>]

Message(m) == [NoRes EXCEPT !.msg = m]

IdleReq ==
    [route |-> "none", pc |-> "idle", body |-> EmptyBody, param |-> "",
     files |-> <<>>, attachmentLinks |-> <<>>, resumeLink |-> NullLink,
     datePosted |-> Undef, issued |-> <<>>, arrived |-> 0,
     status |-> 0, res |-> NoRes, err |-> "none"]

\* The calls a handler has issued to Drive and to the database, in order:
\* files.create for its n-th file, or save() of its document
FilesCreateCall(n) == [op |-> "files.create", n |-> n]
SaveCall == [op |-> "save", n |-> 0]

\* Requests are numbered in arrival order.
CanArrive(r) == req[r].pc = "idle" /\ (IF r = 1 THEN TRUE ELSE req[r - 1].pc # "idle")

\* res.status(code).json(body): the handler is finished.  err records what
\* went wrong inside the handler, which the response does not show.
Respond(r, code, body, why) ==
    [req EXCEPT ![r].pc = "done", ![r].status = code, ![r].res = body, ![r].err = why]

\* A request whose handler awaits one operation only: arrival, that operation
\* and the response are one step.
Serve(r, route, param, body, code, res, why) ==
    [req EXCEPT ![r] = [IdleReq EXCEPT !.route = route, !.param = param, !.body = body,
                                       !.pc = "done", !.status = code, !.res = res,
                                       !.err = why]]

(***************************************************************************)
(* Google Drive.  drive.files.create adds one file to the folder and       *)
(* returns its webViewLink.  Drive gives every file its own link; the      *)
(* model names the link of the file that request r uploaded as its i-th    *)
(* by the pair <<r, i>>.  Two files may carry the same name.               *)
(***************************************************************************)
WebViewLink(r, i) == <<r, i>>

FilesCreate(r, i, name) == drive \cup {[name |-> name, webViewLink |-> WebViewLink(r, i)]}

(***************************************************************************)
(* Mongoose.                                                               *)
(***************************************************************************)
\* A findOne that yields the newest match
FindLast(hits) ==
    IF hits = <<>> THEN <<>> ELSE <<hits[Len(hits)]>>

\* Model.findOne(filter): the first match in the collection's natural
\* (insertion) order, as a list of at most one document
FindOne(hits) ==
    IF hits = <<>> THEN <<>> ELSE <<Head(hits)>>

\* The cast of a string to ObjectId, which findById applies to its argument:
\* only the 24-hex-digit text of an identifier casts; anything else is a
\* CastError, which rejects the query.
CastsToObjectId(text) == \E n \in NativeIds : text = ObjectIdText(n)

\* Model.findById(id), for an id that casts
FindById(coll, text) ==
    FindOne(SelectSeq(coll, LAMBDA d : ObjectIdText(d.id) = text))

\* The `ref` of candidateSchema.jobId: the path is a plain String, no ref
CandidateJobIdRef == "none"

\* query.populate("jobId", select) looks the value of the path up by _id in
\* the model that the path's ref names and puts the selected fields of the
\* document found in its place.  A path without ref names no model, and
\* populate leaves the document as it is.
Populate(doc, ref, refColl) ==
    IF ref = "none" THEN [doc |-> doc, populated |-> <<>>]
    ELSE [doc |-> doc,
          populated |-> FindOne(SelectSeq(refColl, LAMBDA j : doc.jobId = Str(ObjectIdText(j.id))))]

(***************************************************************************)
(* POST /api/jobs                                                          *)
(***************************************************************************)
\* Array.isArray(v) ? v : [v], stored through the [String] cast of the schema
NormalizeList(v) == IF IsArray(v) THEN v.a ELSE <<v.s>>

\* attachmentLinks.unshift(...) in place of push: the links come out reversed
UnshiftLink(links, link) == <<link>> \o links

\* attachmentLinks.push(data.webViewLink)
PushLink(links, link) == Append(links, link)

\* Date.prototype.toISOString() of the instant t, as the two parts that
\* split('T') gives: the UTC date YYYY-MM-DD and the UTC time
ToISOString(t) ==
    LET day == (t \div 2) + 1
    IN  <<"2026-11-" \o (IF day < 10 THEN "0" ELSE "") \o ToString(day),
          IF t % 2 = 0 THEN "00:00:00.000Z" ELSE "12:00:00.000Z">>

\* A datePosted that the request body can set
PostedDateOfBody(body, t) ==
    IF body.datePosted = Undef THEN Str(ToISOString(t)[1]) ELSE body.datePosted

\* datePosted: new Date().toISOString().split('T')[0]; the handler does not
\* read req.body.datePosted
PostedDate(body, t) == Str(ToISOString(t)[1])

\* new Job({...}) as the handler builds it from the body and the links it
\* collected, with the datePosted it computed when it built it; _id is the
\* next native identifier of the collection.  rid names the request that
\* created the document (0: a request before this run).
NewJob(r, body, links) ==
    [id |-> Len(jobs) + 1, rid |-> r,
     jobId |-> body.jobId,
     jobClassification |-> body.jobClassification,
     positionTitle |-> body.positionTitle,
     certifications |-> NormalizeList(Default(body.certifications, Arr(<<>>))),
     tools |-> NormalizeList(Default(body.tools, Arr(<<>>))),
     attachmentLinks |-> links,
     datePosted |-> req[r].datePosted]

\* The request arrives; multer has parsed the fields and buffered the files.
\* The handler runs up to its first await: the first files.create, or
\* job.save() when there is no file.
CreateJobArrive(r, Ids, Certs, Tools, Dates) ==
    /\ CanArrive(r)
    /\ \E id \in Ids, certs \in Certs, tls \in Tools, posted \in Dates, fs \in Attachments :
         LET body == [EmptyBody EXCEPT
                         !.jobId = Str(id),
                         !.jobClassification = Str("Class of " \o id),
                         !.positionTitle = Str("Title of " \o id),
                         !.certifications = certs,
                         !.tools = tls,
                         !.datePosted = posted]
         IN  req' = [req EXCEPT ![r] =
                        [IdleReq EXCEPT
                            !.route = "createJob",
                            !.body = body,
                            !.files = fs,
                            !.arrived = now,
                            !.datePosted = IF fs = <<>> THEN PostedDate(body, now) ELSE Undef,
                            !.issued = IF fs = <<>> THEN <<SaveCall>>
                                       ELSE <<FilesCreateCall(1)>>,
                            !.pc = IF fs = <<>> THEN "save" ELSE "upload"]]
    /\ UNCHANGED <<stores, google, now>>

\* One files.create of the loop resolves: its link is pushed, and the loop
\* goes on to the next file or ends and the handler calls job.save().
CreateJobUpload(r) ==
    /\ req[r].route = "createJob" /\ req[r].pc = "upload"
    /\ LET i == Len(req[r].attachmentLinks) + 1
       IN  /\ drive' = FilesCreate(r, i, req[r].files[i])
           /\ req' = [req EXCEPT
                         ![r].attachmentLinks = PushLink(@, WebViewLink(r, i)),
                         ![r].datePosted = IF i = Len(req[r].files)
                                           THEN PostedDate(req[r].body, now) ELSE Undef,
                         ![r].issued = Append(@, IF i = Len(req[r].files) THEN SaveCall
                                                 ELSE FilesCreateCall(i + 1)),
                         ![r].pc = IF i = Len(req[r].files) THEN "save" ELSE "upload"]
    /\ UNCHANGED <<stores, sheets, now>>

\* A handler that tries a rejected files.create once more
CreateJobUploadFailsRetries(r) ==
    /\ req[r].route = "createJob" /\ req[r].pc = "upload"
    /\ req' = [req EXCEPT
                 ![r].issued = Append(@, FilesCreateCall(Len(req[r].attachmentLinks) + 1)),
                 ![r].err = "drive"]
    /\ UNCHANGED <<stores, google, now>>

\* A files.create rejects: the catch block answers 500.
CreateJobUploadFails(r) ==
    /\ req[r].route = "createJob" /\ req[r].pc = "upload"
    /\ req' = Respond(r, 500, Message("Internal Server Error"), "drive")
    /\ UNCHANGED <<stores, google, now>>

\* A save that replaces the stored job of the same jobId, if there is one
CreateJobSaveUpserts(r) ==
    /\ req[r].route = "createJob" /\ req[r].pc = "save"
    /\ LET job == NewJob(r, req[r].body, req[r].attachmentLinks)
           same == {i \in 1..Len(jobs) : jobs[i].jobId = job.jobId}
       IN  jobs' = IF same = {} THEN Append(jobs, job)
                   ELSE [i \in 1..Len(jobs) |->
                            IF i \in same THEN [job EXCEPT !.id = i] ELSE jobs[i]]
    /\ req' = Respond(r, 201,
                      [Message("Job created successfully") EXCEPT
                          !.jobId = req[r].body.jobId,
                          !.attachmentLinks = req[r].attachmentLinks],
                      "none")
    /\ UNCHANGED <<candidates, evaluations, google, now>>

\* A handler that does not await job.save(): it answers 201 while the write
\* is still to happen
CreateJobSaveNotAwaited(r) ==
    /\ req[r].route = "createJob" /\ req[r].pc = "save"
    /\ req' = Respond(r, 201,
                      [Message("Job created successfully") EXCEPT
                          !.jobId = req[r].body.jobId,
                          !.attachmentLinks = req[r].attachmentLinks],
                      "none")
    /\ UNCHANGED <<stores, google, now>>

\* job.save() resolves: the document is in the collection, the handler
\* answers 201.
CreateJobSave(r) ==
    /\ req[r].route = "createJob" /\ req[r].pc = "save"
    /\ jobs' = Append(jobs, NewJob(r, req[r].body, req[r].attachmentLinks))
    /\ req' = Respond(r, 201,
                      [Message("Job created successfully") EXCEPT
                          !.jobId = req[r].body.jobId,
                          !.attachmentLinks = req[r].attachmentLinks],
                      "none")
    /\ UNCHANGED <<candidates, evaluations, google, now>>

\* A catch block that deletes the files the request had uploaded
CreateJobSaveFailsCleansUp(r) ==
    /\ req[r].route = "createJob" /\ req[r].pc = "save"
    /\ req' = Respond(r, 500, Message("Internal Server Error"), "db")
    /\ drive' = {f \in drive : f.webViewLink[1] # r}
    /\ UNCHANGED <<stores, sheets, now>>

\* job.save() rejects: the catch block answers 500.
CreateJobSaveFails(r) ==
    /\ req[r].route = "createJob" /\ req[r].pc = "save"
    /\ req' = Respond(r, 500, Message("Internal Server Error"), "db")
    /\ UNCHANGED <<stores, google, now>>

(***************************************************************************)
(* GET /api/getJobs and GET /api/jobs/:id                                  *)
(***************************************************************************)
\* Job.find() resolves with every document
GetJobs(r) ==
    /\ CanArrive(r)
    /\ req' = Serve(r, "getJobs", "", EmptyBody, 200, [NoRes EXCEPT !.data = jobs], "none")
    /\ UNCHANGED <<stores, google, now>>

\* Job.find() rejects
GetJobsFails(r) ==
    /\ CanArrive(r)
    /\ req' = Serve(r, "getJobs", "", EmptyBody, 500, Message("Failed to fetch jobs"), "db")
    /\ UNCHANGED <<stores, google, now>>

\* Job.findById(req.params.id): a text that does not cast to ObjectId rejects
\* the query with a CastError, which the catch block answers with 500;
\* otherwise the query resolves with the document or with null.
GetJob(r, Params) ==
    /\ CanArrive(r)
    /\ \E id \in Params :
         LET job == FindById(jobs, id)
         IN  req' = IF ~CastsToObjectId(id)
                    THEN Serve(r, "getJob", id, EmptyBody, 500,
                               Message("Failed to fetch job details"), "cast")
                    ELSE IF job = <<>>
                    THEN Serve(r, "getJob", id, EmptyBody, 404, Message("Job not found"), "none")
                    ELSE Serve(r, "getJob", id, EmptyBody, 200, [NoRes EXCEPT !.data = job], "none")
    /\ UNCHANGED <<stores, google, now>>

\* The query rejects because the database fails
GetJobFails(r, Params) ==
    /\ CanArrive(r)
    /\ \E id \in Params :
         req' = Serve(r, "getJob", id, EmptyBody, 500,
                      Message("Failed to fetch job details"), "db")
    /\ UNCHANGED <<stores, google, now>>

(***************************************************************************)
(* POST /api/candidates                                                    *)
(***************************************************************************)
\* A template literal prints undefined as the text "undefined"
Text(v) == IF v.t = "undefined" THEN "undefined" ELSE v.s

\* `${firstName}_${lastName}_Resume.pdf`
ResumeName(body) == Text(body.firstName) \o "_" \o Text(body.lastName) \o "_Resume.pdf"

\* new Candidate({...}) as the handler builds it
NewCandidate(r, body, resumeLink) ==
    [id |-> Len(candidates) + 1, rid |-> r,
     jobId |-> body.jobId,
     candidateId |-> body.candidateId,
     firstName |-> body.firstName,
     lastName |-> body.lastName,
     skills |-> NormalizeList(Default(body.skills, Arr(<<>>))),
     certifications |-> NormalizeList(Default(body.certifications, Arr(<<>>))),
     tools |-> NormalizeList(Default(body.tools, Arr(<<>>))),
     resumeLink |-> resumeLink]

\* req.file of a request: no resume, or one under some original name
ResumeFiles == {<<>>, <<"cv.docx">>, <<"resume.pdf">>}

\* The request arrives with or without a resume file (req.file).  The handler
\* runs up to its first await: files.create if there is a file, else
\* candidate.save().
CreateCandidateArrive(r, Ids, Jobs, Skills, Certs, Tools, Names) ==
    /\ CanArrive(r)
    /\ \E id \in Ids, job \in Jobs, sk \in Skills, certs \in Certs, tls \in Tools,
          first \in Names, fs \in ResumeFiles :
         req' = [req EXCEPT ![r] =
                    [IdleReq EXCEPT
                        !.route = "createCandidate",
                        !.body = [EmptyBody EXCEPT
                                     !.candidateId = Str(id),
                                     !.jobId = Str(job),
                                     !.firstName = first,
                                     !.lastName = Str("Lee"),
                                     !.skills = sk,
                                     !.certifications = certs,
                                     !.tools = tls],
                        !.files = fs,
                        !.issued = IF fs = <<>> THEN <<SaveCall>>
                                   ELSE <<FilesCreateCall(1)>>,
                        !.pc = IF fs = <<>> THEN "save" ELSE "upload"]]
    /\ UNCHANGED <<stores, google, now>>

\* An upload under the name the file came with
CreateCandidateUploadOriginalName(r) ==
    /\ req[r].route = "createCandidate" /\ req[r].pc = "upload"
    /\ drive' = FilesCreate(r, 1, req[r].files[1])
    /\ req' = [req EXCEPT ![r].resumeLink = WebViewLink(r, 1),
                          ![r].issued = Append(@, SaveCall), ![r].pc = "save"]
    /\ UNCHANGED <<stores, sheets, now>>

\* files.create resolves: resumeLink is the link of the new file; the handler
\* calls candidate.save().
CreateCandidateUpload(r) ==
    /\ req[r].route = "createCandidate" /\ req[r].pc = "upload"
    /\ drive' = FilesCreate(r, 1, ResumeName(req[r].body))
    /\ req' = [req EXCEPT ![r].resumeLink = WebViewLink(r, 1),
                          ![r].issued = Append(@, SaveCall), ![r].pc = "save"]
    /\ UNCHANGED <<stores, sheets, now>>

\* files.create rejects: the catch block answers 500.
CreateCandidateUploadFails(r) ==
    /\ req[r].route = "createCandidate" /\ req[r].pc = "upload"
    /\ req' = Respond(r, 500, Message("Internal Server Error"), "drive")
    /\ UNCHANGED <<stores, google, now>>

\* A save that replaces the stored candidate of the same candidateId, if
\* there is one
CreateCandidateSaveReplaces(r) ==
    /\ req[r].route = "createCandidate" /\ req[r].pc = "save"
    /\ LET candidate == NewCandidate(r, req[r].body, req[r].resumeLink)
           same == {i \in 1..Len(candidates) :
                       candidates[i].candidateId = candidate.candidateId}
       IN  candidates' = IF same = {} THEN Append(candidates, candidate)
                         ELSE [i \in 1..Len(candidates) |->
                                  IF i \in same THEN [candidate EXCEPT !.id = i]
                                  ELSE candidates[i]]
    /\ req' = Respond(r, 201,
                      [Message("Candidate applied successfully!") EXCEPT
                          !.resumeLink = req[r].resumeLink],
                      "none")
    /\ UNCHANGED <<jobs, evaluations, google, now>>

\* candidate.save() resolves: the handler answers 201.
CreateCandidateSave(r) ==
    /\ req[r].route = "createCandidate" /\ req[r].pc = "save"
    /\ candidates' = Append(candidates, NewCandidate(r, req[r].body, req[r].resumeLink))
    /\ req' = Respond(r, 201,
                      [Message("Candidate applied successfully!") EXCEPT
                          !.resumeLink = req[r].resumeLink],
                      "none")
    /\ UNCHANGED <<jobs, evaluations, google, now>>

\* candidate.save() rejects: the catch block answers 500.
CreateCandidateSaveFails(r) ==
    /\ req[r].route = "createCandidate" /\ req[r].pc = "save"
    /\ req' = Respond(r, 500, Message("Internal Server Error"), "db")
    /\ UNCHANGED <<stores, google, now>>

(***************************************************************************)
(* GET /api/candidates and GET /api/getCandidate/:candidateId              *)
(***************************************************************************)
\* Candidate.find().populate("jobId", "jobClassification") resolves
GetCandidates(r) ==
    /\ CanArrive(r)
    /\ req' = Serve(r, "getCandidates", "", EmptyBody, 200,
                    [NoRes EXCEPT !.data = [i \in 1..Len(candidates) |->
                                               Populate(candidates[i], CandidateJobIdRef, jobs)]],
                    "none")
    /\ UNCHANGED <<stores, google, now>>

GetCandidatesFails(r) ==
    /\ CanArrive(r)
    /\ req' = Serve(r, "getCandidates", "", EmptyBody, 500,
                    Message("Internal Server Error"), "db")
    /\ UNCHANGED <<stores, google, now>>

\* Candidate.findOne({ candidateId }).populate("jobId", "jobClassification
\* positionTitle") resolves with the first candidate of that candidateId, or
\* with null.
GetCandidate(r, Params) ==
    /\ CanArrive(r)
    /\ \E id \in Params :
         LET found == FindOne(SelectSeq(candidates, LAMBDA c : c.candidateId = Str(id)))
         IN  req' = IF found = <<>>
                    THEN Serve(r, "getCandidate", id, EmptyBody, 404,
                               [Message("Candidate not found.") EXCEPT !.success = "false"],
                               "none")
                    ELSE Serve(r, "getCandidate", id, EmptyBody, 200,
                               [NoRes EXCEPT
                                   !.success = "true",
                                   !.data = <<Populate(found[1], CandidateJobIdRef, jobs)>>],
                               "none")
    /\ UNCHANGED <<stores, google, now>>

GetCandidateFails(r, Params) ==
    /\ CanArrive(r)
    /\ \E id \in Params :
         req' = Serve(r, "getCandidate", id, EmptyBody, 500,
                      [Message("Internal Server Error") EXCEPT !.success = "false"], "db")
    /\ UNCHANGED <<stores, google, now>>

(***************************************************************************)
(* POST /api/candidates as an earlier copy of the server has it            *)
(* (src/unnamed/part_000): skills is not defaulted and is split on commas, *)
(* and the schema has no candidateId.                                      *)
(***************************************************************************)
\* The characters of the texts that list fields carry
Chars(text) ==
    CASE text = "x" -> <<"x">>
      [] text = "x,y" -> <<"x", ",", "y">>
      [] OTHER -> <<>>

\* String.prototype.split(","): the pieces between the commas, at least one
RECURSIVE SplitChars(_, _)
SplitChars(cs, piece) ==
    IF cs = <<>> THEN <<piece>>
    ELSE IF Head(cs) = "," THEN <<piece>> \o SplitChars(Tail(cs), "")
    ELSE SplitChars(Tail(cs), piece \o Head(cs))

\* skills.split(','): only a string has the method; on undefined and on an
\* array the call throws a TypeError
CanSplit(v) == v.t = "string"
SplitComma(v) == SplitChars(Chars(v.s), "")

NewCandidateCsv(r, body, resumeLink) ==
    [id |-> Len(candidates) + 1, rid |-> r,
     jobId |-> body.jobId,
     candidateId |-> Undef,
     firstName |-> body.firstName,
     lastName |-> body.lastName,
     skills |-> SplitComma(body.skills),
     certifications |-> NormalizeList(Default(body.certifications, Arr(<<>>))),
     tools |-> NormalizeList(Default(body.tools, Arr(<<>>))),
     resumeLink |-> resumeLink]

\* The request arrives without a resume file: the handler builds the document,
\* where skills.split may throw into the catch block, and calls save().
CsvCandidateArrive(r, Jobs, Skills, Certs, Tools) ==
    /\ CanArrive(r)
    /\ \E job \in Jobs, sk \in Skills, certs \in Certs, tls \in Tools :
         LET body == [EmptyBody EXCEPT
                         !.jobId = Str(job), !.firstName = Str("Ann"),
                         !.lastName = Str("Lee"), !.skills = sk,
                         !.certifications = certs, !.tools = tls]
         IN  req' = IF CanSplit(sk)
                    THEN [req EXCEPT ![r] = [IdleReq EXCEPT !.route = "createCandidateCsv",
                                                            !.body = body,
                                                            !.issued = <<SaveCall>>,
                                                            !.pc = "save"]]
                    ELSE Serve(r, "createCandidateCsv", "", body, 500,
                               Message("Internal Server Error"), "type")
    /\ UNCHANGED <<stores, google, now>>

CsvCandidateSave(r) ==
    /\ req[r].route = "createCandidateCsv" /\ req[r].pc = "save"
    /\ candidates' = Append(candidates, NewCandidateCsv(r, req[r].body, req[r].resumeLink))
    /\ req' = Respond(r, 201,
                      [Message("Candidate applied successfully!") EXCEPT
                          !.resumeLink = req[r].resumeLink],
                      "none")
    /\ UNCHANGED <<jobs, evaluations, google, now>>

CsvCandidateSaveFails(r) ==
    /\ req[r].route = "createCandidateCsv" /\ req[r].pc = "save"
    /\ req' = Respond(r, 500, Message("Internal Server Error"), "db")
    /\ UNCHANGED <<stores, google, now>>

(***************************************************************************)
(* POST /api/saveEvaluation and GET /api/getEvaluation/:candidateId        *)
(***************************************************************************)
\* && in place of ||: the request is turned away only when both are missing
MissingBothFields(body) == Falsy(body.candidateId) /\ Falsy(body.evaluationResults)

\* if (!candidateId || !evaluationResults)
MissingFields(body) == Falsy(body.candidateId) \/ Falsy(body.evaluationResults)

\* A schema path of type Array: Mongoose gives an array path the default []
\* when no value is set, and wraps a value that is not an array.
ArrayPath(v) ==
    IF v.t = "undefined" THEN Arr(<<>>)
    ELSE IF IsArray(v) THEN v ELSE Arr(<<v.s>>)

\* new Evaluation({ candidateId, evaluationResults, ScoresFactor })
NewEvaluation(r, body) ==
    [id |-> Len(evaluations) + 1, rid |-> r,
     candidateId |-> body.candidateId,
     evaluationResults |-> ArrayPath(body.evaluationResults),
     ScoresFactor |-> ArrayPath(body.ScoresFactor)]

\* required: true.  A String must be a non-empty string; an Array must not be
\* null or undefined (an empty array passes).
RequiredString(v) == v.t = "string" /\ v.s # ""

\* A required rule that an empty array fails
RequiredNonEmptyArray(v) == v.t = "array" /\ v.a # <<>>

RequiredArray(v) == v.t = "array"

\* The validation that save() runs against evaluationSchema
ValidEvaluation(doc) ==
    /\ RequiredString(doc.candidateId)
    /\ RequiredArray(doc.evaluationResults)
    /\ RequiredArray(doc.ScoresFactor)

\* The request arrives: 400 if a checked field is missing, else the handler
\* builds the document and calls save().
SaveEvaluationArrive(r, Ids, Results, Scores) ==
    /\ CanArrive(r)
    /\ \E id \in Ids, res \in Results, sf \in Scores :
         LET body == [EmptyBody EXCEPT !.candidateId = id, !.evaluationResults = res,
                                       !.ScoresFactor = sf]
         IN  req' = IF MissingFields(body)
                    THEN Serve(r, "saveEvaluation", "", body, 400,
                               Message("Missing required fields"), "none")
                    ELSE [req EXCEPT ![r] = [IdleReq EXCEPT !.route = "saveEvaluation",
                                                            !.body = body, !.pc = "save"]]
    /\ UNCHANGED <<stores, google, now>>

\* newEvaluation.save() validates the document and inserts it: 201.  A
\* document that fails validation rejects the save: the catch answers 500.
SaveEvaluationSave(r) ==
    /\ req[r].route = "saveEvaluation" /\ req[r].pc = "save"
    /\ LET doc == NewEvaluation(r, req[r].body)
       IN  IF ValidEvaluation(doc)
           THEN /\ evaluations' = Append(evaluations, doc)
                /\ req' = Respond(r, 201, Message("Evaluation saved successfully!"), "none")
           ELSE /\ evaluations' = evaluations
                /\ req' = Respond(r, 500, Message("Internal Server Error"), "validation")
    /\ UNCHANGED <<jobs, candidates, google, now>>

\* save() rejects because the database fails: the catch answers 500.
SaveEvaluationSaveFails(r) ==
    /\ req[r].route = "saveEvaluation" /\ req[r].pc = "save"
    /\ req' = Respond(r, 500, Message("Internal Server Error"), "db")
    /\ UNCHANGED <<stores, google, now>>

\* A lookup that answers the newest evaluation of the candidateId
GetEvaluationNewest(r, Params) ==
    /\ CanArrive(r)
    /\ \E id \in Params :
         LET found == FindLast(SelectSeq(evaluations, LAMBDA e : e.candidateId = Str(id)))
         IN  req' = IF found = <<>>
                    THEN Serve(r, "getEvaluation", id, EmptyBody, 404,
                               Message("Evaluation not found"), "none")
                    ELSE Serve(r, "getEvaluation", id, EmptyBody, 200,
                               [NoRes EXCEPT !.data = found], "none")
    /\ UNCHANGED <<stores, google, now>>

\* Evaluation.findOne({ candidateId }) resolves: 404 for null, else
\* res.json(evaluation).
GetEvaluation(r, Params) ==
    /\ CanArrive(r)
    /\ \E id \in Params :
         LET found == FindOne(SelectSeq(evaluations, LAMBDA e : e.candidateId = Str(id)))
         IN  req' = IF found = <<>>
                    THEN Serve(r, "getEvaluation", id, EmptyBody, 404,
                               Message("Evaluation not found"), "none")
                    ELSE Serve(r, "getEvaluation", id, EmptyBody, 200,
                               [NoRes EXCEPT !.data = found], "none")
    /\ UNCHANGED <<stores, google, now>>

\* Evaluation.findOne rejects.  The handler has no try/catch, so the promise
\* it returned rejects and the handler never writes a response.  What becomes
\* of the request is up to Express: version 4 ignores the promise and the
\* request stays unanswered; version 5 passes the error to its default error
\* handler, which answers 500 with a page of its own.
GetEvaluationFails(r, Params) ==
    /\ CanArrive(r)
    /\ \E id \in Params :
         \/ req' = Serve(r, "getEvaluation", id, EmptyBody, 0, NoRes, "db")
         \/ req' = Serve(r, "getEvaluation", id, EmptyBody, 500,
                         Message("Express default error page"), "db")
    /\ UNCHANGED <<stores, google, now>>

(***************************************************************************)
(* POST /api/candidateToSheet, /api/assessmentosheet and /api/submitForm   *)
(***************************************************************************)
\* The fields each route reads from req.body, in the order of the row's cells
CandidateSheetFields ==
    <<"candidateId", "firstName", "lastName", "email", "phone", "education",
      "experience", "linkedin", "address", "totalScore", "skills", "certifications",
      "tools">>
AssessmentFields ==
    <<"candidateId", "agreeableness", "communicationSkills", "conscientiousness",
      "criticalThinking", "emotionalStability", "extroversion", "leadershipAbility",
      "openness", "professionalCultureProfile">>
SurveyFields ==
    <<"q1", "q1Details", "q2", "q3", "q3Details", "q4", "q4Details", "q5", "q6",
      "q6Details", "q7">>

Range(f) == {f[i] : i \in DOMAIN f}

\* A JSON body over the fields of a route: the fields in Present carry the
\* value that Value gives them, the others are omitted
BodyOf(fields, Present, values) ==
    [f \in Range(fields) |-> IF f \in Present THEN values[f] ELSE Undef]

NoRows == [Sheet1 |-> <<>>, Sheet2 |-> <<>>, Sheet3 |-> <<>>]

\* v || dflt
Or(v, dflt) == IF Falsy(v) THEN dflt ELSE v

\* Array.prototype.join(", ")
RECURSIVE Join(_)
Join(list) ==
    IF list = <<>> THEN ""
    ELSE IF Len(list) = 1 THEN list[1]
    ELSE list[1] \o ", " \o Join(Tail(list))

\* (Array.isArray(v) ? v.join(", ") : v || "Not Specified")
ListCell(v) == IF IsArray(v) THEN Str(Join(v.a)) ELSE Or(v, Str("Not Specified"))

\* A row whose score cell has the placeholder of the other cells
CandidateRowOnePlaceholder(body) ==
    [i \in 1..Len(CandidateSheetFields) |->
        LET f == CandidateSheetFields[i]
        IN  IF f \in {"skills", "certifications", "tools"} THEN ListCell(body[f])
            ELSE Or(body[f], Str("Not Specified"))]

\* The values row of /api/candidateToSheet
CandidateRow(body) ==
    [i \in 1..Len(CandidateSheetFields) |->
        LET f == CandidateSheetFields[i]
        IN  IF f \in {"skills", "certifications", "tools"} THEN ListCell(body[f])
            ELSE IF f = "totalScore" THEN Or(body[f], Str("0"))
            ELSE Or(body[f], Str("Not Specified"))]

\* The values row of /api/assessmentosheet and of /api/submitForm
PlainRow(fields, body) == [i \in 1..Len(fields) |-> Or(body[fields[i]], Str("Not Specified"))]

\* An append that lands on every sheet of the spreadsheet
AppendRowEverySheet(sheet, row) == [s \in DOMAIN sheets |-> Append(sheets[s], row)]

\* sheets.spreadsheets.values.append on a range of the spreadsheet
AppendRow(sheet, row) == [sheets EXCEPT ![sheet] = Append(@, row)]

SheetDone == Message("Data added to Google Sheet successfully")
SheetFailed == Message("Failed to submit the data in the google sheet")

\* The append resolves: 200.
CandidateToSheet(r, Bodies) ==
    /\ CanArrive(r)
    /\ \E body \in Bodies :
         /\ sheets' = AppendRow("Sheet1", CandidateRow(body))
         /\ req' = Serve(r, "candidateToSheet", "", body, 200, SheetDone, "none")
    /\ UNCHANGED <<stores, drive, now>>

AssessmentToSheet(r, Bodies) ==
    /\ CanArrive(r)
    /\ \E body \in Bodies :
         /\ sheets' = AppendRow("Sheet2", PlainRow(AssessmentFields, body))
         /\ req' = Serve(r, "assessmentosheet", "", body, 200, SheetDone, "none")
    /\ UNCHANGED <<stores, drive, now>>

SubmitForm(r, Bodies) ==
    /\ CanArrive(r)
    /\ \E body \in Bodies :
         /\ sheets' = AppendRow("Sheet3", PlainRow(SurveyFields, body))
         /\ req' = Serve(r, "submitForm", "", body, 200, SheetDone, "none")
    /\ UNCHANGED <<stores, drive, now>>

\* The append rejects: the catch block of the route answers 500.
SheetAppendFails(r, route, Bodies) ==
    /\ CanArrive(r)
    /\ \E body \in Bodies : req' = Serve(r, route, "", body, 500, SheetFailed, "sheets")
    /\ UNCHANGED <<stores, google, now>>

(***************************************************************************)
(* Specifications.                                                         *)
(***************************************************************************)
\* Documents that requests before the run have left in the stores
EarlierJob ==
    [id |-> 1, rid |-> 0, jobId |-> Str("J1"),
     jobClassification |-> Str("Class of J1"), positionTitle |-> Str("Title of J1"),
     certifications |-> <<>>, tools |-> <<>>, attachmentLinks |-> <<>>,
     datePosted |-> Str("2026-10-31")]

EarlierCandidate ==
    [id |-> 1, rid |-> 0, jobId |-> Str("J1"), candidateId |-> Str("C1"),
     firstName |-> Str("Ann"), lastName |-> Str("Lee"),
     skills |-> <<>>, certifications |-> <<>>, tools |-> <<>>, resumeLink |-> NullLink]

EarlierEvaluation ==
    [id |-> 1, rid |-> 0, candidateId |-> Str("C1"),
     evaluationResults |-> Arr(<<"earlier">>), ScoresFactor |-> Arr(<<>>)]

\* The service starts on an empty database and an empty folder.
Init ==
    /\ jobs = <<>>
    /\ candidates = <<>>
    /\ evaluations = <<>>
    /\ drive = {}
    /\ sheets = NoRows
    /\ req = [r \in Req |-> IdleReq]
    /\ now = 0

JobParams == {ObjectIdText(1), ObjectIdText(2), "J1"}

\* Bodies for the rows: every field omitted, and every field given as a text
\* but skills, given as a list
EmptyRowBody(fields) == BodyOf(fields, {}, [f \in Range(fields) |-> Undef])
FullRowBody(fields) ==
    BodyOf(fields, Range(fields),
           [f \in Range(fields) |->
               IF f = "skills" THEN Arr(<<"x", "y">>) ELSE Str("the " \o f)])
RowBodies(fields) == {EmptyRowBody(fields), FullRowBody(fields)}

\* Every route, the requests racing with each other.
Next ==
    \E r \in Req :
        \/ CreateJobArrive(r, {"J1"}, {Undef}, {Str("x")}, {Undef})
        \/ CreateJobUpload(r)
        \/ CreateJobUploadFails(r)
        \/ CreateJobSave(r)
        \/ CreateJobSaveFails(r)
        \/ GetJobs(r)
        \/ GetJobsFails(r)
        \/ GetJob(r, JobParams)
        \/ GetJobFails(r, {ObjectIdText(1)})
        \/ CreateCandidateArrive(r, {"C1"}, {"J1"}, {Undef}, {Undef}, {Undef}, {Str("Ann")})
        \/ CreateCandidateUpload(r)
        \/ CreateCandidateUploadFails(r)
        \/ CreateCandidateSave(r)
        \/ CreateCandidateSaveFails(r)
        \/ GetCandidates(r)
        \/ GetCandidatesFails(r)
        \/ GetCandidate(r, {"C1"})
        \/ GetCandidateFails(r, {"C1"})
        \/ SaveEvaluationArrive(r, {Undef, Str("C1")}, {Arr(<<"a">>)}, {Undef})
        \/ SaveEvaluationSave(r)
        \/ SaveEvaluationSaveFails(r)
        \/ GetEvaluation(r, {"C1"})
        \/ GetEvaluationFails(r, {"C1"})
        \/ CandidateToSheet(r, RowBodies(CandidateSheetFields))
        \/ SheetAppendFails(r, "candidateToSheet", {EmptyRowBody(CandidateSheetFields)})
        \/ AssessmentToSheet(r, RowBodies(AssessmentFields))
        \/ SheetAppendFails(r, "assessmentosheet", {EmptyRowBody(AssessmentFields)})
        \/ SubmitForm(r, RowBodies(SurveyFields))
        \/ SheetAppendFails(r, "submitForm", {EmptyRowBody(SurveyFields)})

Spec == Init /\ [][Next]_vars

\* Half a day passes.
Tick ==
    /\ now < MaxTick
    /\ now' = now + 1
    /\ UNCHANGED <<stores, google, req>>

\* Candidates applying with or without a resume, under a first name or
\* without one, while Drive or the database may fail.
NextResume ==
    \E r \in Req :
        \/ CreateCandidateArrive(r, {"C1"}, {"J1"}, {Undef}, {Undef}, {Undef},
                                 {Undef, Str("Ann"), Str("Bob")})
        \/ CreateCandidateUpload(r)
        \/ CreateCandidateUploadFails(r)
        \/ CreateCandidateSave(r)
        \/ CreateCandidateSaveFails(r)

SpecResume == Init /\ [][NextResume]_vars

\* One job creation while time passes, the body giving a datePosted or none.
NextClock ==
    \/ Tick
    \/ \E r \in {1} :
          \/ CreateJobArrive(r, {"J1"}, {Undef}, {Undef}, {Undef, Str("1999-12-31")})
          \/ CreateJobUpload(r)
          \/ CreateJobUploadFails(r)
          \/ CreateJobSave(r)
          \/ CreateJobSaveFails(r)

SpecClock == Init /\ [][NextClock]_vars

\* The reporting routes, on a database and a folder that hold earlier
\* documents.  A body of /api/candidateToSheet gives every field but one,
\* and that one in every shape: omitted, empty, zero, a text, a number, a
\* list.
EarlierFile == [name |-> "Ann_Lee_Resume.pdf", webViewLink |-> WebViewLink(0, 1)]

SheetVals ==
    {Undef, Str(""), Num(0), Str("x"), Num(7), Arr(<<>>), Arr(<<"x">>), Arr(<<"x", "y">>)}

SheetBodies ==
    RowBodies(CandidateSheetFields)
        \cup {[FullRowBody(CandidateSheetFields) EXCEPT ![f] = v] :
                  f \in Range(CandidateSheetFields), v \in SheetVals}

InitSheets ==
    /\ jobs = <<EarlierJob>>
    /\ candidates = <<EarlierCandidate>>
    /\ evaluations = <<EarlierEvaluation>>
    /\ drive = {EarlierFile}
    /\ sheets = NoRows
    /\ req = [r \in Req |-> IdleReq]
    /\ now = 0

NextSheets ==
    \E r \in Req :
        \/ CandidateToSheet(r, SheetBodies)
        \/ SheetAppendFails(r, "candidateToSheet", RowBodies(CandidateSheetFields))
        \/ AssessmentToSheet(r, RowBodies(AssessmentFields))
        \/ SheetAppendFails(r, "assessmentosheet", RowBodies(AssessmentFields))
        \/ SubmitForm(r, RowBodies(SurveyFields))
        \/ SheetAppendFails(r, "submitForm", RowBodies(SurveyFields))

SpecSheets == InitSheets /\ [][NextSheets]_vars

\* The two creation routes, with requests that race on a business identifier.
NextCreate ==
    \E r \in Req :
        \/ CreateJobArrive(r, JobIds, {Undef}, {Str("x")}, {Undef})
        \/ CreateJobUpload(r)
        \/ CreateJobUploadFails(r)
        \/ CreateJobSave(r)
        \/ CreateJobSaveFails(r)
        \/ CreateCandidateArrive(r, CandidateIds, {"J1"}, {Undef}, {Undef}, {Undef}, {Str("Ann")})
        \/ CreateCandidateUpload(r)
        \/ CreateCandidateUploadFails(r)
        \/ CreateCandidateSave(r)
        \/ CreateCandidateSaveFails(r)

SpecCreate == Init /\ [][NextCreate]_vars

\* The lookups, on a database that may hold a job and while candidates apply.
InitRead ==
    /\ jobs \in {<<>>, <<EarlierJob>>}
    /\ candidates = <<>>
    /\ evaluations = <<>>
    /\ drive = {}
    /\ sheets = NoRows
    /\ req = [r \in Req |-> IdleReq]
    /\ now = 0

NextRead ==
    \E r \in Req :
        \/ CreateCandidateArrive(r, CandidateIds, JobIds, {Undef}, {Undef}, {Undef}, {Str("Ann")})
        \/ CreateCandidateUpload(r)
        \/ CreateCandidateUploadFails(r)
        \/ CreateCandidateSave(r)
        \/ CreateCandidateSaveFails(r)
        \/ GetCandidate(r, CandidateIds)
        \/ GetCandidateFails(r, CandidateIds)
        \/ GetJob(r, JobParams)
        \/ GetJobFails(r, JobParams)

SpecRead == InitRead /\ [][NextRead]_vars

\* The evaluation routes, on a database that may hold a candidate and an
\* evaluation of that candidate.
InitEvaluations ==
    /\ jobs = <<>>
    /\ candidates \in {<<>>, <<EarlierCandidate>>}
    /\ evaluations \in {<<>>, <<EarlierEvaluation>>}
    /\ drive = {}
    /\ sheets = NoRows
    /\ req = [r \in Req |-> IdleReq]
    /\ now = 0

NextEvaluations ==
    \E r \in Req :
        \/ SaveEvaluationArrive(r, {Undef, Str("")} \cup {Str(c) : c \in CandidateIds},
                                {Undef, Arr(<<>>), Arr(<<"a">>)}, {Undef, Arr(<<"s">>)})
        \/ SaveEvaluationSave(r)
        \/ SaveEvaluationSaveFails(r)
        \/ GetEvaluation(r, CandidateIds)
        \/ GetEvaluationFails(r, CandidateIds)

SpecEvaluations == InitEvaluations /\ [][NextEvaluations]_vars

\* The list fields of the creation routes in every shape they can arrive in:
\* one request, no failure of Drive or of the database.
NextFields ==
    \E r \in {1} :
        \/ CreateJobArrive(r, {"J1"}, FieldVals, FieldVals, {Undef})
        \/ CreateJobUpload(r)
        \/ CreateJobSave(r)
        \/ CreateCandidateArrive(r, {"C1"}, {"J1"}, FieldVals, FieldVals, FieldVals, {Str("Ann")})
        \/ CreateCandidateUpload(r)
        \/ CreateCandidateSave(r)
        \/ CsvCandidateArrive(r, {"J1"}, FieldVals, FieldVals, FieldVals)
        \/ CsvCandidateSave(r)

SpecFields == Init /\ [][NextFields]_vars

(***************************************************************************)
(* Properties.                                                             *)
(***************************************************************************)
\* The documents of a collection that request r created
CreatedBy(coll, r) == {i \in 1..Len(coll) : coll[i].rid = r}

Answered(r, route, code) ==
    req[r].route = route /\ req[r].pc = "done" /\ req[r].status = code

\* C1: a POST /api/jobs answered 201 with N files has left one job whose
\* attachmentLinks has N entries, the i-th being the link Drive returned for
\* the i-th submitted file (the file of that name in the folder), and the
\* response carries the same list.
C1_AttachmentLinksInOrder ==
    \A r \in Req :
        Answered(r, "createJob", 201) =>
            /\ Cardinality(CreatedBy(jobs, r)) = 1
            /\ \A j \in CreatedBy(jobs, r) :
                 LET links == jobs[j].attachmentLinks
                 IN  /\ Len(links) = Len(req[r].files)
                     /\ req[r].res.attachmentLinks = links
                     /\ \A i \in 1..Len(links) :
                          /\ links[i] = WebViewLink(r, i)
                          /\ [name |-> req[r].files[i], webViewLink |-> links[i]] \in drive

C1_Witness ==
    \E r \in Req :
        /\ Answered(r, "createJob", 201)
        /\ Len(req[r].files) >= 2
        /\ \E j \in CreatedBy(jobs, r) : Len(jobs[j].attachmentLinks) >= 2

\* Whether a job of that native identifier is stored
JobStored(text) == \E j \in 1..Len(jobs) : ObjectIdText(jobs[j].id) = text

\* C2: GET /api/jobs/:id for an id under which no job is stored, whatever its
\* format, is answered 404 and not 500 (the database being up).
C2_MissingJobIs404 ==
    \A r \in Req :
        (req[r].route = "getJob" /\ req[r].pc = "done" /\ req[r].err # "db"
            /\ ~JobStored(req[r].param))
        => req[r].status = 404

\* C3: a POST /api/saveEvaluation whose body lacks candidateId or
\* evaluationResults is answered 400 at once: it never reaches save() and
\* leaves no evaluation.
C3_MissingFieldIs400 ==
    \A r \in Req :
        (req[r].route = "saveEvaluation"
            /\ (req[r].body.candidateId = Undef \/ req[r].body.evaluationResults = Undef))
        => /\ req[r].pc = "done"
           /\ req[r].status = 400
           /\ CreatedBy(evaluations, r) = {}

C3_Witness ==
    /\ \E r \in Req :
         /\ Answered(r, "saveEvaluation", 400)
         /\ req[r].body.candidateId # Undef
         /\ req[r].body.evaluationResults = Undef
    /\ \E r \in Req :
         /\ Answered(r, "saveEvaluation", 400)
         /\ req[r].body.candidateId = Undef
         /\ req[r].body.evaluationResults # Undef

\* C4: a POST /api/saveEvaluation with candidateId and evaluationResults and
\* without ScoresFactor, once save() has settled without a database failure,
\* is answered 201 and has added exactly one evaluation.
C4_NoScoresFactorIs201 ==
    \A r \in Req :
        (req[r].route = "saveEvaluation" /\ req[r].pc = "done" /\ req[r].err # "db"
            /\ ~Falsy(req[r].body.candidateId)
            /\ ~Falsy(req[r].body.evaluationResults)
            /\ req[r].body.ScoresFactor = Undef)
        => /\ req[r].status = 201
           /\ Cardinality(CreatedBy(evaluations, r)) = 1

C4_Witness ==
    \E r \in Req :
        /\ Answered(r, "saveEvaluation", 201)
        /\ req[r].body.ScoresFactor = Undef
        /\ \E e \in CreatedBy(evaluations, r) : evaluations[e].ScoresFactor = Arr(<<>>)

\* The list a field is to be stored as: nothing for an omitted field, the one
\* value for a single value, the list itself for a list
ListOf(v) ==
    IF v.t = "undefined" THEN <<>>
    ELSE IF v.t = "string" THEN <<v.s>> ELSE v.a

\* C5: job creation (certifications, tools) and candidate creation (skills,
\* certifications, tools) store each field as the list of its values, and no
\* shape of a field makes the request fail.
C5_ListFieldsNormalized ==
    \A r \in Req :
        /\ (req[r].route \in {"createJob", "createCandidate", "createCandidateCsv"}
               /\ req[r].pc = "done")
           => req[r].status = 201
        /\ \A j \in CreatedBy(jobs, r) :
             /\ jobs[j].certifications = ListOf(req[r].body.certifications)
             /\ jobs[j].tools = ListOf(req[r].body.tools)
        /\ \A c \in CreatedBy(candidates, r) :
             /\ candidates[c].skills = ListOf(req[r].body.skills)
             /\ candidates[c].certifications = ListOf(req[r].body.certifications)
             /\ candidates[c].tools = ListOf(req[r].body.tools)

\* The same for the handlers of src/server.js alone
C5_ServerJsFieldsNormalized ==
    \A r \in Req :
        req[r].route \in {"createJob", "createCandidate"} =>
            /\ req[r].pc = "done" => req[r].status = 201
            /\ \A j \in CreatedBy(jobs, r) :
                 /\ jobs[j].certifications = ListOf(req[r].body.certifications)
                 /\ jobs[j].tools = ListOf(req[r].body.tools)
            /\ \A c \in CreatedBy(candidates, r) :
                 /\ candidates[c].skills = ListOf(req[r].body.skills)
                 /\ candidates[c].certifications = ListOf(req[r].body.certifications)
                 /\ candidates[c].tools = ListOf(req[r].body.tools)

\* Request r is answered in this step by the one-step handler of a route,
\* the lookup having succeeded
Looks(r, route) ==
    req[r].pc = "idle" /\ req'[r].route = route /\ req'[r].pc = "done" /\ req'[r].err = "none"

\* C6: GET /api/getCandidate/:candidateId answers 404 with success false when
\* no candidate has that candidateId; else 200 with a candidate of that
\* candidateId as stored, carrying the classification and title of the job
\* whose jobId is the candidate's jobId when there is such a job, and nothing
\* more when there is none.
C6_GetCandidateEnriched ==
    [][\A r \in Req :
         Looks(r, "getCandidate") =>
             LET mine == {i \in 1..Len(candidates) :
                             candidates[i].candidateId = Str(req'[r].param)}
             IN  IF mine = {}
                 THEN req'[r].status = 404 /\ req'[r].res.success = "false"
                 ELSE /\ req'[r].status = 200
                      /\ Len(req'[r].res.data) = 1
                      /\ \E i \in mine :
                           LET got == req'[r].res.data[1]
                               js == {j \in 1..Len(jobs) : jobs[j].jobId = candidates[i].jobId}
                           IN  /\ got.doc = candidates[i]
                               /\ IF js = {} THEN got.populated = <<>>
                                  ELSE /\ Len(got.populated) = 1
                                       /\ \E j \in js :
                                            /\ got.populated[1].jobClassification
                                                   = jobs[j].jobClassification
                                            /\ got.populated[1].positionTitle
                                                   = jobs[j].positionTitle]_vars

\* What the code does instead: the candidate comes back as stored, with no
\* field of any job, whether or not a job of that jobId exists.
C6_GetCandidateAsStored ==
    [][\A r \in Req :
         Looks(r, "getCandidate") =>
             LET found == FindOne(SelectSeq(candidates, LAMBDA c : c.candidateId = Str(req'[r].param)))
             IN  IF found = <<>>
                 THEN req'[r].status = 404 /\ req'[r].res.success = "false"
                 ELSE /\ req'[r].status = 200 /\ req'[r].res.success = "true"
                      /\ req'[r].res.data = <<[doc |-> found[1], populated |-> <<>>]>>]_vars

\* The fixed bodies that the catch blocks of the handlers send
GenericErrors ==
    {Message("Internal Server Error"), Message("Failed to fetch jobs"),
     Message("Failed to fetch job details"), SheetFailed,
     [Message("Internal Server Error") EXCEPT !.success = "false"]}

\* C7: on every route, a request whose database operation or Drive call has
\* failed is answered 500 with one of the fixed generic bodies.
C7_FailureIs500Generic ==
    \A r \in Req :
        (req[r].pc = "done" /\ req[r].err \in {"db", "drive", "sheets"})
        => req[r].status = 500 /\ req[r].res \in GenericErrors

\* The same with GET /api/getEvaluation/:candidateId left out
C7_FailureIs500GenericElsewhere ==
    \A r \in Req :
        (req[r].pc = "done" /\ req[r].err \in {"db", "drive", "sheets"}
            /\ req[r].route # "getEvaluation")
        => req[r].status = 500 /\ req[r].res \in GenericErrors

\* C8: a POST /api/jobs in which an upload or the save failed is answered 500,
\* has left no job (with all of its links or with some of them), and every
\* file it had uploaded before the failure is still in the folder.
C8_FailedJobLeavesFilesOnly ==
    \A r \in Req :
        (req[r].route = "createJob" /\ req[r].pc = "done" /\ req[r].err \in {"db", "drive"})
        => /\ req[r].status = 500
           /\ CreatedBy(jobs, r) = {}
           /\ \A i \in 1..Len(req[r].attachmentLinks) :
                [name |-> req[r].files[i], webViewLink |-> WebViewLink(r, i)] \in drive

C8_Witness ==
    /\ \E r \in Req :
         /\ Answered(r, "createJob", 500) /\ req[r].err = "db"
         /\ Len(req[r].attachmentLinks) >= 2
    /\ \E r \in Req :
         /\ Answered(r, "createJob", 500) /\ req[r].err = "drive"
         /\ Len(req[r].attachmentLinks) = 1

\* The business identifier a creation request carries
BusinessId(r) ==
    IF req[r].route = "createJob" THEN req[r].body.jobId ELSE req[r].body.candidateId

\* The collection a creation request writes to
Target(r) == IF req[r].route = "createJob" THEN jobs ELSE candidates

Creates(r) == req[r].route \in {"createJob", "createCandidate"}

\* C9: creation requests are turned away only by a failure of Drive or of the
\* database, never by one another; and two answered 201 on the same route
\* with the same business identifier have each left a record of their own,
\* both stored under that identifier.
C9_DuplicatesBothStored ==
    /\ \A r \in Req :
         (Creates(r) /\ req[r].pc = "done") =>
             \/ req[r].status = 201 /\ req[r].err = "none"
             \/ req[r].status = 500 /\ req[r].err \in {"db", "drive"}
    /\ \A r1, r2 \in Req :
         (r1 # r2 /\ Creates(r1) /\ req[r1].route = req[r2].route
             /\ req[r1].status = 201 /\ req[r2].status = 201
             /\ BusinessId(r1) = BusinessId(r2))
         => \E i \in CreatedBy(Target(r1), r1), k \in CreatedBy(Target(r2), r2) :
                /\ i # k
                /\ Target(r1)[i].id # Target(r2)[k].id
                /\ IF req[r1].route = "createJob"
                   THEN jobs[i].jobId = BusinessId(r1) /\ jobs[k].jobId = BusinessId(r1)
                   ELSE /\ candidates[i].candidateId = BusinessId(r1)
                        /\ candidates[k].candidateId = BusinessId(r1)

\* Two jobs of one jobId, the request that arrived second having saved first
\* with both requests' uploads in the folder; and two candidates of one
\* candidateId in another state.
C9_Witness ==
    /\ Answered(1, "createJob", 201) /\ Answered(2, "createJob", 201)
    /\ req[1].body.jobId = req[2].body.jobId
    /\ Len(req[1].files) >= 1 /\ Len(req[2].files) >= 1
    /\ Len(jobs) = 2 /\ jobs[1].rid = 2 /\ jobs[2].rid = 1

C9_WitnessCandidates ==
    /\ Answered(1, "createCandidate", 201) /\ Answered(2, "createCandidate", 201)
    /\ req[1].body.candidateId = req[2].body.candidateId
    /\ Len(candidates) = 2 /\ candidates[1].rid = 2 /\ candidates[2].rid = 1

\* The evaluations stored for a candidateId
EvaluationsOf(text) == {i \in 1..Len(evaluations) : evaluations[i].candidateId = Str(text)}

\* POST /api/saveEvaluation requests with both checked fields present
ValidSave(r) ==
    /\ req[r].route = "saveEvaluation"
    /\ ~Falsy(req[r].body.candidateId)
    /\ ~Falsy(req[r].body.evaluationResults)

\* C10, the saves: a valid save whose database write did not fail is answered
\* 201 and has added one evaluation of its candidateId, whether or not a
\* candidate or an evaluation of that candidateId is stored; no other request
\* adds one, so k such saves for a candidateId leave k records more.
C10_EverySaveAddsOne ==
    /\ \A r \in Req :
         (ValidSave(r) /\ req[r].pc = "done" /\ req[r].err # "db")
         => /\ req[r].status = 201
            /\ Cardinality(CreatedBy(evaluations, r)) = 1
            /\ \A e \in CreatedBy(evaluations, r) :
                 evaluations[e].candidateId = req[r].body.candidateId
    /\ \A e \in 1..Len(evaluations) :
         evaluations[e].rid # 0 => Answered(evaluations[e].rid, "saveEvaluation", 201)
    /\ \A e1, e2 \in 1..Len(evaluations) :
         evaluations[e1].id = evaluations[e2].id => e1 = e2

\* C10, the lookup: GET /api/getEvaluation/:candidateId answers 404 exactly
\* when no stored evaluation has that candidateId, and else 200 with the
\* first stored evaluation of that candidateId.
C10_LookupStep ==
    \A r \in Req :
        Looks(r, "getEvaluation") =>
            LET mine == EvaluationsOf(req'[r].param)
            IN  /\ req'[r].status = 404 <=> mine = {}
                /\ mine # {} =>
                     /\ req'[r].status = 200
                     /\ req'[r].res.data = <<evaluations[CHOOSE i \in mine : \A k \in mine : i <= k]>>

\* C10: every valid save adds a record, and the lookup returns the first match.
C10_SavesAddLookupReturnsFirst == []C10_EverySaveAddsOne /\ [][C10_LookupStep]_vars

\* Two evaluations of one candidateId are stored, the second by a save that
\* found the first, with no candidate of that candidateId stored, and a lookup
\* of that candidateId has answered the first of them.
C10_Witness ==
    \E r, w \in Req :
        /\ Answered(r, "getEvaluation", 200)
        /\ Answered(w, "saveEvaluation", 201)
        /\ req[w].body.candidateId = Str(req[r].param)
        /\ Cardinality(EvaluationsOf(req[r].param)) >= 2
        /\ req[r].res.data = <<evaluations[1]>>
        /\ \A c \in 1..Len(candidates) : candidates[c].candidateId # Str(req[r].param)

\* The placeholder of a cell: "0" for the score, "Not Specified" elsewhere
Placeholder(f) == IF f = "totalScore" THEN Str("0") ELSE Str("Not Specified")

ListFields == {"skills", "certifications", "tools"}

\* Request r is answered 200 by /api/candidateToSheet in this step
SheetStep(r, route) == Looks(r, route) /\ req'[r].status = 200

\* The cells of a row of /api/candidateToSheet for a body, a field being
\* counting as omitted when its value is in missing
RowCells(row, body, missing) ==
    /\ Len(row) = 13
    /\ \A i \in 1..13 :
         LET f == CandidateSheetFields[i]
             v == body[f]
         IN  /\ v \in missing => row[i] = Placeholder(f)
             /\ (IsArray(v) /\ f \in ListFields) => row[i] = Str(Join(v.a))
             /\ (v \notin missing /\ ~IsArray(v)) => row[i] = v

\* C11 as stated: /api/candidateToSheet appends one row of 13 cells in the
\* order of the fields; an omitted totalScore gives "0", any other omitted
\* field "Not Specified", a list in skills, certifications or tools its
\* elements joined with ", ", and a present scalar its own value.
C11_OmittedOnlyIsPlaceholder ==
    [][\A r \in Req :
         SheetStep(r, "candidateToSheet") =>
             /\ Len(sheets'.Sheet1) = Len(sheets.Sheet1) + 1
             /\ SubSeq(sheets'.Sheet1, 1, Len(sheets.Sheet1)) = sheets.Sheet1
             /\ RowCells(sheets'.Sheet1[Len(sheets'.Sheet1)], req'[r].body,
                         {Undef})]_vars

\* C11 as amended: the same, a field counting as omitted also when its value
\* is falsy (the empty string, the number 0), and a present scalar giving
\* its own value when it is not falsy.
C11_FalsyIsPlaceholder ==
    [][\A r \in Req :
         SheetStep(r, "candidateToSheet") =>
             /\ Len(sheets'.Sheet1) = Len(sheets.Sheet1) + 1
             /\ SubSeq(sheets'.Sheet1, 1, Len(sheets.Sheet1)) = sheets.Sheet1
             /\ RowCells(sheets'.Sheet1[Len(sheets'.Sheet1)], req'[r].body,
                         {Undef, Str(""), Num(0)})]_vars

\* A request without totalScore has put "0" in the score cell, one without
\* any field has put "Not Specified" in the others, and one with a list of
\* two skills has put the two, joined, in the skills cell.
C11_Witness ==
    /\ \E r \in Req :
         /\ Answered(r, "candidateToSheet", 200)
         /\ req[r].body = EmptyRowBody(CandidateSheetFields)
         /\ \E k \in 1..Len(sheets.Sheet1) :
              /\ sheets.Sheet1[k][10] = Str("0")
              /\ \A i \in (1..13) \ {10} : sheets.Sheet1[k][i] = Str("Not Specified")
    /\ \E r \in Req :
         /\ Answered(r, "candidateToSheet", 200)
         /\ req[r].body.skills = Arr(<<"x", "y">>)
         /\ req[r].body.totalScore = Str("the totalScore")
         /\ \E k \in 1..Len(sheets.Sheet1) :
              /\ sheets.Sheet1[k][11] = Str("x, y")
              /\ sheets.Sheet1[k][10] = Str("the totalScore")

\* The sheet each reporting route appends to
TargetSheet ==
    [candidateToSheet |-> "Sheet1", assessmentosheet |-> "Sheet2", submitForm |-> "Sheet3"]

\* Request r is answered in this step by the handler of a reporting route
Reports(r, route) == req[r].pc = "idle" /\ req'[r].pc = "done" /\ req'[r].route = route

\* C12: a request to /api/candidateToSheet, /api/assessmentosheet or
\* /api/submitForm leaves the jobs, candidates, evaluations and the Drive
\* folder as they were, whether it is answered 200 or 500; its answer is
\* decided by the append alone, whatever the stores hold; and when it is
\* answered 200 its own sheet has one row more, after the rows it had, and
\* the two other sheets have the rows they had.
C12_ReportingTouchesOwnSheetOnly ==
    [][\A r \in Req : \A route \in DOMAIN TargetSheet :
         Reports(r, route) =>
             /\ stores' = stores
             /\ drive' = drive
             /\ req'[r].status \in {200, 500}
             /\ req'[r].status = 200 <=> req'[r].err = "none"
             /\ req'[r].status = 200 =>
                  /\ req'[r].res = SheetDone
                  /\ Len(sheets'[TargetSheet[route]]) = Len(sheets[TargetSheet[route]]) + 1
                  /\ SubSeq(sheets'[TargetSheet[route]], 1, Len(sheets[TargetSheet[route]]))
                         = sheets[TargetSheet[route]]
                  /\ \A other \in DOMAIN sheets \ {TargetSheet[route]} :
                       sheets'[other] = sheets[other]]_vars

\* One request has appended a row to Sheet2 and another has failed on
\* /api/submitForm, the stores and the folder holding what they held.
C12_Witness ==
    /\ \E r \in Req : Answered(r, "assessmentosheet", 200)
    /\ \E r \in Req : Answered(r, "submitForm", 500)
    /\ Len(sheets.Sheet2) = 1 /\ sheets.Sheet1 = <<>> /\ sheets.Sheet3 = <<>>
    /\ jobs = <<EarlierJob>> /\ candidates = <<EarlierCandidate>>
    /\ evaluations = <<EarlierEvaluation>> /\ drive = {EarlierFile}

\* Every document of a collection is, after the step, where it was and as it
\* was
Kept(before, after) ==
    /\ Len(after) >= Len(before)
    /\ \A i \in 1..Len(before) : after[i] = before[i]

\* C13: no step of any route, in any interleaving of requests, changes or
\* removes a stored job, candidate or evaluation: the three collections only
\* grow, at their end.
C13_StoresAppendOnly ==
    [][/\ Kept(jobs, jobs')
       /\ Kept(candidates, candidates')
       /\ Kept(evaluations, evaluations')]_vars

\* Two requests of the same candidateId have each stored a candidate, the
\* second save finding the first one's document in the collection.
C13_Witness ==
    /\ Len(candidates) = 2
    /\ candidates[1].candidateId = candidates[2].candidateId
    /\ candidates[1].rid # candidates[2].rid
    /\ \A r \in Req : Answered(r, "createCandidate", 201)

\* C14: whenever a POST /api/jobs or a POST /api/candidates has been answered
\* 201, the collection holds the document that request created; for a job,
\* the response carries the jobId of the request body, which is the stored
\* jobId, and the attachmentLinks of the stored document.
C14_Answered201IsStored ==
    \A r \in Req :
        /\ Answered(r, "createJob", 201) =>
              /\ CreatedBy(jobs, r) # {}
              /\ \A j \in CreatedBy(jobs, r) :
                   /\ req[r].res.jobId = req[r].body.jobId
                   /\ jobs[j].jobId = req[r].body.jobId
                   /\ req[r].res.attachmentLinks = jobs[j].attachmentLinks
        /\ Answered(r, "createCandidate", 201) =>
              /\ CreatedBy(candidates, r) # {}
              /\ \A c \in CreatedBy(candidates, r) :
                   /\ candidates[c].candidateId = req[r].body.candidateId
                   /\ candidates[c].resumeLink = req[r].res.resumeLink

\* A job with an attachment and a candidate have been answered 201.
C14_Witness ==
    /\ \E r \in Req :
         /\ Answered(r, "createJob", 201)
         /\ req[r].res.jobId = Str("J2")
         /\ Len(req[r].res.attachmentLinks) = 1
    /\ \E r \in Req : Answered(r, "createCandidate", 201)

\* The UTC calendar date at an instant of the clock
Calendar == <<"2026-11-01", "2026-11-02", "2026-11-03", "2026-11-04", "2026-11-05">>
UtcDate(t) == Str(Calendar[(t \div 2) + 1])

\* POST /api/jobs has, in this step, had the last of its uploads completed
\* (or has arrived without a file) and builds its document
BuildsJob(r) == req[r].pc # "save" /\ req'[r].route = "createJob" /\ req'[r].pc = "save"

\* C15, the stored value: the datePosted of a job that a request created is
\* the date the request computed when it built the document, a date of the
\* calendar that is not later than today, whatever datePosted the body gave.
C15_StoredDateIsBuildDate ==
    \A j \in 1..Len(jobs) :
        jobs[j].rid # 0 =>
            /\ jobs[j].datePosted = req[jobs[j].rid].datePosted
            /\ \E t \in req[jobs[j].rid].arrived..now : jobs[j].datePosted = UtcDate(t)

\* C15: the date a POST /api/jobs computes is the UTC calendar date of the
\* moment all its uploads have completed and the document is built, and that
\* date is what the job is stored with.
C15_DatePostedIsDateAtCreation ==
    /\ []C15_StoredDateIsBuildDate
    /\ [][\A r \in Req :
            BuildsJob(r) =>
                /\ Len(req'[r].attachmentLinks) = Len(req'[r].files)
                /\ req'[r].datePosted = UtcDate(now)]_vars

\* A request that arrived on the first day with two files and a datePosted
\* of its own has stored a job dated the second day.
C15_Witness ==
    \E j \in 1..Len(jobs) :
        LET r == jobs[j].rid
        IN  /\ r # 0
            /\ req[r].arrived = 0
            /\ Len(req[r].files) = 2
            /\ req[r].body.datePosted = Str("1999-12-31")
            /\ jobs[j].datePosted = Str("2026-11-02")

\* The calls a POST /api/jobs with n files issues when nothing fails
CallsInOrder(n) == [k \in 1..(n + 1) |-> IF k <= n THEN FilesCreateCall(k) ELSE SaveCall]

\* The files of the folder that request r uploaded
UploadedBy(r) == {f \in drive : f.webViewLink[1] = r}

\* The files.create calls among the calls request r has issued
CreateCalls(r) == {k \in 1..Len(req[r].issued) : req[r].issued[k].op = "files.create"}

\* C16, the state of a POST /api/jobs: the calls it has issued are the first
\* calls of "file 1, file 2, ..., save", each once; the upload of a file is
\* issued only with every file before it uploaded, so at most one upload is
\* under way; save() is issued only with every file uploaded; and a request
\* whose upload failed is finished, with that upload its last call.
C16_UploadsInOrderState ==
    \A r \in Req :
        req[r].route = "createJob" =>
            LET n == Len(req[r].files)
                done == Len(req[r].attachmentLinks)
            IN  /\ Len(req[r].issued) <= n + 1
                /\ \A k \in 1..Len(req[r].issued) : req[r].issued[k] = CallsInOrder(n)[k]
                /\ Cardinality(UploadedBy(r)) = done
                /\ \A i \in 1..done :
                     [name |-> req[r].files[i], webViewLink |-> WebViewLink(r, i)] \in drive
                /\ Cardinality(CreateCalls(r)) \in {done, done + 1}
                /\ Cardinality(CreateCalls(r)) = done + 1
                       <=> (req[r].pc = "upload" \/ req[r].err = "drive")
                /\ (\E k \in 1..Len(req[r].issued) : req[r].issued[k] = SaveCall) => done = n
                /\ req[r].err = "drive" =>
                     /\ req[r].pc = "done" /\ req[r].status = 500
                     /\ req[r].issued[Len(req[r].issued)] = FilesCreateCall(done + 1)

\* C16: the above in every state, and a finished request issues nothing
\* more: it stays as it is and uploads no further file.
C16_UploadsOneAtATime ==
    /\ []C16_UploadsInOrderState
    /\ [][\A r \in Req :
            (req[r].route = "createJob" /\ req[r].pc = "done") =>
                /\ req'[r] = req[r]
                /\ UploadedBy(r)' = UploadedBy(r)
                /\ CreatedBy(jobs, r)' = CreatedBy(jobs, r)]_vars

\* One request has uploaded its first file and failed on its second, while
\* another has uploaded two files and saved its job.
C16_Witness ==
    /\ \E r \in Req :
         /\ Answered(r, "createJob", 500) /\ req[r].err = "drive"
         /\ Len(req[r].files) = 2
         /\ req[r].issued = <<FilesCreateCall(1), FilesCreateCall(2)>>
         /\ Cardinality(UploadedBy(r)) = 1
    /\ \E r \in Req :
         /\ Answered(r, "createJob", 201)
         /\ req[r].issued = <<FilesCreateCall(1), FilesCreateCall(2), SaveCall>>

\* firstName_lastName_Resume.pdf for the names of a body that gives both
NameOnDrive(body) == body.firstName.s \o "_" \o body.lastName.s \o "_Resume.pdf"

\* C17: a POST /api/candidates without a resume file calls Drive never and
\* stores and answers a null resumeLink; with a file, once its upload has
\* completed, it has made one upload, under firstName_lastName_Resume.pdf
\* whatever the file was called (an omitted name reading "undefined"), and
\* it stores and answers the link of that
\* file; when the upload or the save failed it is answered 500 and has left
\* no candidate.
C17_ResumeUploadedOnceUnderCandidateName ==
    \A r \in Req :
        req[r].route = "createCandidate" =>
            /\ req[r].files = <<>> =>
                 /\ UploadedBy(r) = {} /\ CreateCalls(r) = {}
                 /\ req[r].resumeLink = NullLink
            /\ (req[r].files # <<>> /\ req[r].pc # "upload" /\ req[r].err # "drive") =>
                 /\ Cardinality(UploadedBy(r)) = 1 /\ Cardinality(CreateCalls(r)) = 1
                 /\ \A f \in UploadedBy(r) :
                      /\ f.name = IF req[r].body.firstName = Undef
                                  THEN "undefined_Lee_Resume.pdf"
                                  ELSE NameOnDrive(req[r].body)
                      /\ req[r].resumeLink = f.webViewLink
            /\ Answered(r, "createCandidate", 201) =>
                 /\ Cardinality(CreatedBy(candidates, r)) = 1
                 /\ req[r].res.resumeLink = req[r].resumeLink
                 /\ \A c \in CreatedBy(candidates, r) :
                      candidates[c].resumeLink = req[r].resumeLink
            /\ req[r].err \in {"drive", "db"} =>
                 /\ req[r].pc = "done" /\ req[r].status = 500
                 /\ CreatedBy(candidates, r) = {}
            /\ req[r].err = "drive" => UploadedBy(r) = {}

\* Two candidates of the same names, whose files had different names, have
\* each a file of the same name in the folder and a link of their own.
C17_Witness ==
    /\ Answered(1, "createCandidate", 201) /\ Answered(2, "createCandidate", 201)
    /\ req[1].files = <<"cv.docx">> /\ req[2].files = <<"resume.pdf">>
    /\ req[1].body.firstName = Str("Ann") /\ req[2].body.firstName = Str("Ann")
    /\ \E f, g \in drive :
         /\ f.name = "Ann_Lee_Resume.pdf" /\ g.name = f.name
         /\ f.webViewLink # g.webViewLink
         /\ \E c, d \in 1..Len(candidates) :
              candidates[c].resumeLink = f.webViewLink /\ candidates[d].resumeLink = g.webViewLink

\* A candidate without a resume is stored with a null resumeLink, nothing
\* being in the folder.
C17_WitnessNoFile ==
    \E r \in Req :
        /\ Answered(r, "createCandidate", 201)
        /\ req[r].files = <<>>
        /\ req[r].res.resumeLink = NullLink
        /\ \E c \in CreatedBy(candidates, r) : candidates[c].resumeLink = NullLink
        /\ drive = {}

====
